---- MODULE Spec2Model ----
(***************************************************************************)
(* Request pipeline of the book API: the structured JavaScript application *)
(* (routes/book.js, middleware, BookController, BookModel, CacheUtils,     *)
(* DatabaseUtils) and the TypeScript cacheMiddleware of routes/book.ts.    *)
(*                                                                         *)
(* Storage (D1) is a table  db : id -> title | NoRow.  The KV cache is a   *)
(* map  kv : key -> stored text | NoEntry.  A request is handled in one    *)
(* step; what the client observes is recorded in  last.                    *)
(***************************************************************************)
EXTENDS FiniteSets, Integers, Sequences, TLC

\* ---------------------------------------------------------------- bounds
MaxBatch == 2

\* identifiers Utils.generateId can hand out, and the titles a body carries
Ids == {"b1", "b2"}
Titles == {"t1", "t2"}

\* ------------------------------------------------------------ JS values
\* JavaScript null / undefined
NullV == "<null>"
\* the update body {} (no own properties)
EmptyObj == "<empty>"
\* no row with that id in table books
NoRow == "<norow>"

Book(id, title) == [id |-> id, title |-> title]
NoBook == Book(NullV, NullV)

Err(name, message) == [name |-> name, message |-> message]
NoErr == Err("", "")

ValidationError(message) == Err("ValidationError", message)
NotFoundError(resource) == Err("NotFoundError", resource \o " not found")
DatabaseError(message) == Err("DatabaseError", message)

\* ------------------------------------------------------- storage faults
\* A fault plan names the storage call of an operation (1st, 2nd, ...) that
\* goes wrong: "throws" = the D1 statement rejects, "nosuccess" = run()
\* resolves with success = false.
Fault(at, how) == [at |-> at, how |-> how]
NoFault == Fault(0, "ok")
Throws(f, n) == f.at = n /\ f.how = "throws"
NoSuccess(f, n) == f.at = n /\ f.how = "nosuccess"

GetFaults == {NoFault, Fault(1, "throws")}
GetAllFaults == {NoFault, Fault(1, "throws"), Fault(2, "throws")}
CreateFaults == {NoFault, Fault(1, "throws"), Fault(1, "nosuccess"), Fault(2, "throws")}
UpdateFaults == {NoFault, Fault(1, "throws"), Fault(2, "throws"), Fault(2, "nosuccess"),
                 Fault(3, "throws")}
DeleteFaults == {NoFault, Fault(1, "throws"), Fault(2, "throws"), Fault(2, "nosuccess")}

\* DatabaseUtils.executeQuery/executeGet/executeRun: the catch block runs
\* `throw new DatabaseError(...)`, and utils/index.js has no binding for
\* DatabaseError, so the error that leaves the catch block is a ReferenceError.
ExecuteFailure == Err("ReferenceError", "DatabaseError is not defined")

Row(d, id) == IF id \in DOMAIN d THEN d[id] ELSE NoRow

\* ------------------------------------------------------------ BookModel
\* Every operation returns [err, book, db, calls]: the error thrown (NoErr
\* when it returns), the value returned, the table afterwards and the number
\* of storage calls it made.
Ret(err, book, d, calls) == [err |-> err, book |-> book, db |-> d, calls |-> calls]

getById(d, id, fails) ==
  IF id = NullV THEN Ret(Err("Error", "Book ID is required"), NoBook, d, 0)
  ELSE IF fails THEN Ret(ExecuteFailure, NoBook, d, 1)
  ELSE IF Row(d, id) = NoRow THEN Ret(NotFoundError("Book"), NoBook, d, 1)
  ELSE Ret(NoErr, Book(id, d[id]), d, 1)

\* bookData is NullV or the title of the body; newId is what generateId() gave
create(d, bookData, newId, f) ==
  IF bookData = NullV
  THEN Ret(Err("TypeError", "Cannot destructure property 'title'"), NoBook, d, 0)
  ELSE IF Throws(f, 1) THEN Ret(ExecuteFailure, NoBook, d, 1)
  ELSE IF NoSuccess(f, 1) THEN Ret(DatabaseError("Failed to create book"), NoBook, d, 1)
  ELSE LET d1 == [d EXCEPT ![newId] = bookData]
           g == getById(d1, newId, Throws(f, 2))
       IN  Ret(g.err, g.book, d1, 1 + g.calls)

\* updateData is NullV, EmptyObj or the new title
update(d, id, updateData, f) ==
  IF id = NullV THEN Ret(Err("Error", "Book ID is required"), NoBook, d, 0)
  ELSE LET g1 == getById(d, id, Throws(f, 1)) IN
    IF g1.err # NoErr THEN Ret(g1.err, NoBook, d, g1.calls)
    ELSE IF updateData = NullV
    THEN Ret(Err("TypeError", "Cannot convert undefined or null to object"), NoBook, d, 1)
    ELSE IF updateData = EmptyObj
    THEN Ret(Err("Error", "No valid fields to update"), NoBook, d, 1)
    ELSE IF Throws(f, 2) THEN Ret(ExecuteFailure, NoBook, d, 2)
    ELSE IF NoSuccess(f, 2) THEN Ret(DatabaseError("Failed to update book"), NoBook, d, 2)
    ELSE LET d1 == [d EXCEPT ![id] = updateData]
             g2 == getById(d1, id, Throws(f, 3))
         IN  Ret(g2.err, g2.book, d1, 2 + g2.calls)

\* returns { deleted: true, id }: the book field carries the id
delete(d, id, f) ==
  IF id = NullV THEN Ret(Err("Error", "Book ID is required"), NoBook, d, 0)
  ELSE LET g1 == getById(d, id, Throws(f, 1)) IN
    IF g1.err # NoErr THEN Ret(g1.err, NoBook, d, g1.calls)
    ELSE IF Throws(f, 2) THEN Ret(ExecuteFailure, NoBook, d, 2)
    ELSE IF NoSuccess(f, 2) THEN Ret(DatabaseError("Failed to delete book"), NoBook, d, 2)
    ELSE Ret(NoErr, Book(id, "deleted"), [d EXCEPT ![id] = NoRow], 2)

\* every stored book
Listing(d) == {Book(id, d[id]) : id \in {i \in DOMAIN d : d[i] # NoRow}}

\* options = [page, limit]: the count query, then the page query.  The table
\* never holds more than limit rows here, so a page is all rows or none.
getAll(d, options, f) ==
  LET offset == (options.page - 1) * options.limit IN
  IF Throws(f, 1) THEN [err |-> ExecuteFailure, books |-> {}, calls |-> 1]
  ELSE IF Throws(f, 2) THEN [err |-> ExecuteFailure, books |-> {}, calls |-> 2]
  ELSE [err |-> NoErr,
        books |-> IF offset < Cardinality(Listing(d)) THEN Listing(d) ELSE {},
        calls |-> 2]

\* ------------------------------------------------- BookModel, batches
\* A batch fault plan hits one storage call of one item.
BatchFault(item, at, how) == [item |-> item, at |-> at, how |-> how]
NoBatchFault == BatchFault(0, 0, "ok")
ItemFault(bf, i) == IF bf.item = i THEN Fault(bf.at, bf.how) ELSE NoFault

\* the accumulators of a batch loop: table, results, errors, storage calls
Acc(d, results, errors, calls) ==
  [db |-> d, results |-> results, errors |-> errors, calls |-> calls]

Aggregate(acc, n) ==
  [results |-> acc.results, errors |-> acc.errors, total |-> n,
   success_count |-> Len(acc.results), error_count |-> Len(acc.errors)]
NoAgg == [results |-> <<>>, errors |-> <<>>, total |-> 0,
          success_count |-> 0, error_count |-> 0]

\* attempted: the turns of the loop that ran the single-item operation
BatchRet(err, agg, acc) ==
  [err |-> err, agg |-> agg, db |-> acc.db, calls |-> acc.calls,
   attempted |-> Len(acc.results) + Len(acc.errors)]

\* one turn of the loop of createMultiple: try { create } catch { errors.push }
createItem(acc, bookData, newId, f) ==
  LET r == create(acc.db, bookData, newId, f) IN
  IF r.err = NoErr
  THEN Acc(r.db, Append(acc.results, r.book), acc.errors, acc.calls + r.calls)
  ELSE Acc(r.db, acc.results,
           Append(acc.errors, [data |-> bookData, error |-> r.err.message]),
           acc.calls + r.calls)

RECURSIVE createLoop(_, _, _, _, _)
createLoop(acc, i, booksData, newIds, bf) ==
  IF i > Len(booksData) THEN acc
  ELSE createLoop(createItem(acc, booksData[i], newIds[i], ItemFault(bf, i)),
                  i + 1, booksData, newIds, bf)

createMultiple(d, booksData, newIds, bf) ==
  IF Len(booksData) = 0
  THEN BatchRet(Err("Error", "Books data array is required"), NoAgg, Acc(d, <<>>, <<>>, 0))
  ELSE LET acc == createLoop(Acc(d, <<>>, <<>>, 0), 1, booksData, newIds, bf)
       IN  BatchRet(NoErr, Aggregate(acc, Len(booksData)), acc)

\* an element of the updates array: null, or an object with id and data
UpdateItem(id, data) == [isNull |-> FALSE, id |-> id, data |-> data]
NullItem == [isNull |-> TRUE, id |-> NullV, data |-> NullV]

updateItem(acc, item, f) ==
  LET r == update(acc.db, item.id, item.data, f) IN
  IF r.err = NoErr
  THEN Acc(r.db, Append(acc.results, r.book), acc.errors, acc.calls + r.calls)
  ELSE Acc(r.db, acc.results,
           Append(acc.errors, [id |-> item.id, data |-> item.data,
                               error |-> r.err.message]),
           acc.calls + r.calls)

\* `for (const { id, data } of updates)`: the destructuring is in the loop
\* head, outside the try, so a null element throws out of the loop.  The
\* result is [aborted, acc].
RECURSIVE updateLoop(_, _, _, _)
updateLoop(acc, i, updates, bf) ==
  IF i > Len(updates) THEN [aborted |-> FALSE, acc |-> acc]
  ELSE IF updates[i].isNull THEN [aborted |-> TRUE, acc |-> acc]
  ELSE updateLoop(updateItem(acc, updates[i], ItemFault(bf, i)), i + 1, updates, bf)

updateMultiple(d, updates, bf) ==
  IF Len(updates) = 0
  THEN BatchRet(Err("Error", "Updates array is required"), NoAgg, Acc(d, <<>>, <<>>, 0))
  ELSE LET l == updateLoop(Acc(d, <<>>, <<>>, 0), 1, updates, bf) IN
       IF l.aborted
       THEN BatchRet(Err("TypeError", "Cannot destructure property 'id'"), NoAgg, l.acc)
       ELSE BatchRet(NoErr, Aggregate(l.acc, Len(updates)), l.acc)

\* deleteItem with the catch block losing the failure
deleteItem_swallow(acc, id, f) ==
  LET r == delete(acc.db, id, f) IN
  IF r.err = NoErr
  THEN Acc(r.db, Append(acc.results, r.book), acc.errors, acc.calls + r.calls)
  ELSE Acc(r.db, acc.results, acc.errors, acc.calls + r.calls)

deleteItem(acc, id, f) ==
  LET r == delete(acc.db, id, f) IN
  IF r.err = NoErr
  THEN Acc(r.db, Append(acc.results, r.book), acc.errors, acc.calls + r.calls)
  ELSE Acc(r.db, acc.results,
           Append(acc.errors, [id |-> id, error |-> r.err.message]),
           acc.calls + r.calls)

RECURSIVE deleteLoop(_, _, _, _)
deleteLoop(acc, i, ids, bf) ==
  IF i > Len(ids) THEN acc
  ELSE deleteLoop(deleteItem(acc, ids[i], ItemFault(bf, i)), i + 1, ids, bf)

deleteMultiple(d, ids, bf) ==
  IF Len(ids) = 0
  THEN BatchRet(Err("Error", "IDs array is required"), NoAgg, Acc(d, <<>>, <<>>, 0))
  ELSE LET acc == deleteLoop(Acc(d, <<>>, <<>>, 0), 1, ids, bf)
       IN  BatchRet(NoErr, Aggregate(acc, Len(ids)), acc)

\* ------------------------------------------------------------ responses
\* The JSON body of a response.  data is the set of book objects it carries,
\* agg the aggregate of a batch; status is the status field that
\* ResponseUtils.success / ResponseUtils.error put INTO the body.
Body(success, code, status, data, agg) ==
  [success |-> success, code |-> code, status |-> status, data |-> data, agg |-> agg]
Resp(status, body) == [status |-> status, body |-> body]

ResponseUtils_success(data, agg) == Body(TRUE, "", 200, data, agg)
ResponseUtils_error(status, code) == Body(FALSE, code, status, {}, NoAgg)
\* ResponseUtils.paginated has no status field
ResponseUtils_paginated(data) == Body(TRUE, "", 0, data, NoAgg)

\* what error.code is for an error thrown in the application
ErrCode(err) ==
  CASE err.name = "ValidationError" -> "VALIDATION_ERROR"
    [] err.name = "NotFoundError" -> "NOT_FOUND"
    [] err.name = "DatabaseError" -> "DATABASE_ERROR"
    [] OTHER -> NullV

\* ------------------------------------------------------- BookController
\* A handler returns [res, db, calls, wrote, attempted]: the response, the
\* table afterwards, the storage calls made, the ids it reported as written
\* and, for a batch, the items its loop attempted.
CRetB(res, d, calls, wrote, attempted) ==
  [res |-> res, db |-> d, calls |-> calls, wrote |-> wrote, attempted |-> attempted]
CRet(res, d, calls, wrote) == CRetB(res, d, calls, wrote, 0)

getBooks(d, queryData, f) ==
  LET r == getAll(d, queryData, f) IN
  IF r.err = NoErr
  THEN CRet(Resp(200, ResponseUtils_paginated(r.books)), d, r.calls, {})
  ELSE IF r.err.name = "ValidationError"
  THEN CRet(Resp(400, ResponseUtils_error(400, ErrCode(r.err))), d, r.calls, {})
  ELSE CRet(Resp(500, ResponseUtils_error(500, "GET_BOOKS_ERROR")), d, r.calls, {})

getBookById(d, id, f) ==
  LET r == getById(d, id, Throws(f, 1)) IN
  IF r.err = NoErr
  THEN CRet(Resp(200, ResponseUtils_success({r.book}, NoAgg)), d, r.calls, {})
  ELSE IF r.err.name = "NotFoundError"
  THEN CRet(Resp(404, ResponseUtils_error(404, ErrCode(r.err))), d, r.calls, {})
  ELSE CRet(Resp(500, ResponseUtils_error(500, "GET_BOOK_ERROR")), d, r.calls, {})

\* the catch block shared by the write handlers: its instanceof branches
\* (notFound: whether the handler has a NotFoundError branch)
WriteError(err, notFound, fallback) ==
  IF notFound /\ err.name = "NotFoundError"
  THEN Resp(404, ResponseUtils_error(404, ErrCode(err)))
  ELSE IF err.name = "ValidationError"
  THEN Resp(400, ResponseUtils_error(400, ErrCode(err)))
  ELSE IF err.name = "DatabaseError"
  THEN Resp(500, ResponseUtils_error(500, ErrCode(err)))
  ELSE Resp(500, ResponseUtils_error(500, fallback))

createBook(d, bookData, newId, f) ==
  LET r == create(d, bookData, newId, f) IN
  IF r.err = NoErr
  THEN CRet(Resp(201, ResponseUtils_success({r.book}, NoAgg)), r.db, r.calls, {newId})
  ELSE CRet(WriteError(r.err, FALSE, "CREATE_BOOK_ERROR"), r.db, r.calls, {})

\* parses = FALSE: `await c.req.json()` rejects before the model is called
updateBook(d, id, parses, updateData, f) ==
  LET r == update(d, id, updateData, f) IN
  IF ~parses
  THEN CRet(WriteError(Err("SyntaxError", "Unexpected end of JSON input"), TRUE,
                       "UPDATE_BOOK_ERROR"), d, 0, {})
  ELSE IF r.err = NoErr
  THEN CRet(Resp(200, ResponseUtils_success({r.book}, NoAgg)), r.db, r.calls, {id})
  ELSE CRet(WriteError(r.err, TRUE, "UPDATE_BOOK_ERROR"), r.db, r.calls, {})

deleteBook(d, id, f) ==
  LET r == delete(d, id, f) IN
  IF r.err = NoErr
  THEN CRet(Resp(200, ResponseUtils_success({r.book}, NoAgg)), r.db, r.calls, {id})
  ELSE CRet(WriteError(r.err, TRUE, "DELETE_BOOK_ERROR"), r.db, r.calls, {})

\* The JSON body of a batch request as the handler reads it: parses = FALSE
\* when c.req.json() rejects (no body, malformed JSON); isArray = FALSE when
\* the field (books / updates / ids) is missing or is not an array.
BatchBody(parses, isArray, items) ==
  [parses |-> parses, isArray |-> isArray, items |-> items]

\* the catch block of the batch handlers: ValidationError, else the fallback
BatchError(err, fallback) ==
  IF err.name = "ValidationError"
  THEN Resp(400, ResponseUtils_error(400, ErrCode(err)))
  ELSE Resp(500, ResponseUtils_error(500, fallback))

Written(agg) == {agg.results[i].id : i \in 1..Len(agg.results)}

createMultipleBooks(d, body, newIds, bf) ==
  IF ~body.parses
  THEN CRet(BatchError(Err("SyntaxError", "Unexpected end of JSON input"),
                       "BATCH_CREATE_ERROR"), d, 0, {})
  ELSE IF ~body.isArray \/ Len(body.items) = 0
  THEN CRet(BatchError(ValidationError("Books array is required"),
                       "BATCH_CREATE_ERROR"), d, 0, {})
  ELSE LET r == createMultiple(d, body.items, newIds, bf) IN
       IF r.err = NoErr
       THEN CRetB(Resp(201, ResponseUtils_success({}, r.agg)), r.db, r.calls,
                  Written(r.agg), r.attempted)
       ELSE CRetB(BatchError(r.err, "BATCH_CREATE_ERROR"), r.db, r.calls, {}, r.attempted)

updateMultipleBooks(d, body, bf) ==
  IF ~body.parses
  THEN CRet(BatchError(Err("SyntaxError", "Unexpected end of JSON input"),
                       "BATCH_UPDATE_ERROR"), d, 0, {})
  ELSE IF ~body.isArray \/ Len(body.items) = 0
  THEN CRet(BatchError(ValidationError("Updates array is required"),
                       "BATCH_UPDATE_ERROR"), d, 0, {})
  ELSE LET r == updateMultiple(d, body.items, bf) IN
       IF r.err = NoErr
       THEN CRetB(Resp(200, ResponseUtils_success({}, r.agg)), r.db, r.calls,
                  Written(r.agg), r.attempted)
       ELSE CRetB(BatchError(r.err, "BATCH_UPDATE_ERROR"), r.db, r.calls, {}, r.attempted)

deleteMultipleBooks(d, body, bf) ==
  IF ~body.parses
  THEN CRet(BatchError(Err("SyntaxError", "Unexpected end of JSON input"),
                       "BATCH_DELETE_ERROR"), d, 0, {})
  ELSE IF ~body.isArray \/ Len(body.items) = 0
  THEN CRet(BatchError(ValidationError("IDs array is required"),
                       "BATCH_DELETE_ERROR"), d, 0, {})
  ELSE LET r == deleteMultiple(d, body.items, bf) IN
       IF r.err = NoErr
       THEN CRetB(Resp(200, ResponseUtils_success({}, r.agg)), r.db, r.calls,
                  Written(r.agg), r.attempted)
       ELSE CRetB(BatchError(r.err, "BATCH_DELETE_ERROR"), r.db, r.calls, {}, r.attempted)

\* ------------------------------------------------------------ KV cache
\* JSON.stringify / JSON.parse of a body: the text keeps the body's fields
\* and nothing else (the HTTP status of the response is not part of it).
Stringify(body) == [json |-> body]
Parse(text) == text.json

CacheUtils_getCacheKey(prefix, identifier) == prefix \o ":" \o identifier

\* What cache.get does in one call: "ok" = answers from the namespace,
\* "throws" = the collaborator rejects, "garbage" = it answers a string that
\* is not JSON.
GetOutcomes == {"ok", "throws", "garbage"}

\* CacheUtils.get: [found, value]; found = FALSE is the null it returns
CacheUtils_get(kvs, key, outcome) ==
  IF outcome = "ok" /\ key \in DOMAIN kvs
  THEN [found |-> TRUE, value |-> Parse(kvs[key])]
  ELSE [found |-> FALSE, value |-> ResponseUtils_error(0, NullV)]

\* CacheUtils.set: the namespace afterwards (unchanged when put rejects)
CacheUtils_set(kvs, key, value, putThrows) ==
  IF putThrows THEN kvs
  ELSE [k \in DOMAIN kvs \cup {key} |-> IF k = key THEN Stringify(value) ELSE kvs[k]]

\* The cache(ttl) middleware around a handler result h (evaluated only on the
\* path that calls next()).  Returns the handler's fields plus the namespace
\* afterwards, whether the answer came from the cache and how often next()
\* ran the handler.
MwRet(res, d, calls, wrote, kvs, hit, handlerCalls) ==
  [res |-> res, db |-> d, calls |-> calls, wrote |-> wrote, kv |-> kvs,
   hit |-> hit, handlerCalls |-> handlerCalls]

cache(on, kvs, d, key, h, outcome, putThrows) ==
  IF ~on THEN MwRet(h.res, h.db, h.calls, h.wrote, kvs, FALSE, 1)
  ELSE LET cached == CacheUtils_get(kvs, key, outcome) IN
    IF cached.found
    THEN MwRet(Resp(200, cached.value), d, 0, {}, kvs, TRUE, 0)
    ELSE MwRet(h.res, h.db, h.calls, h.wrote,
               CacheUtils_set(kvs, key, h.res.body, putThrows), FALSE, 1)

\* --------------------------------------------------------------- router
\* routes/book.js in registration order; the first route whose method and
\* pattern match handles the request (its last handler never calls next()).
Route(method, pattern, handler) ==
  [method |-> method, pattern |-> pattern, handler |-> handler]

Routes ==
  << Route("GET", <<>>, "getBooks"),
     Route("GET", <<"search">>, "searchBooks"),
     Route("GET", <<":id">>, "getBookById"),
     Route("POST", <<>>, "createBook"),
     Route("PUT", <<":id">>, "updateBook"),
     Route("DELETE", <<":id">>, "deleteBook"),
     Route("POST", <<"batch">>, "createMultipleBooks"),
     Route("PUT", <<"batch">>, "updateMultipleBooks"),
     Route("DELETE", <<"batch">>, "deleteMultipleBooks"),
     Route("GET", <<"stats", "overview">>, "getBookStatistics") >>

PathMatch(pattern, segs) ==
  /\ Len(pattern) = Len(segs)
  /\ \A i \in 1..Len(pattern) : pattern[i] = ":id" \/ pattern[i] = segs[i]

Matching(method, segs) ==
  {i \in 1..Len(Routes) : Routes[i].method = method /\ PathMatch(Routes[i].pattern, segs)}

Match(method, segs) ==
  LET m == Matching(method, segs)
  IN  Routes[CHOOSE i \in m : \A j \in m : i <= j].handler

\* c.req.url of a request to the books router
Url(segs, query) ==
  (IF Len(segs) = 0 THEN "/books"
   ELSE IF Len(segs) = 1 THEN "/books/" \o segs[1]
   ELSE "/books/" \o segs[1] \o "/" \o segs[2]) \o query

\* requireMembership: 401 without a Bearer token, else next()
AuthRequired == Resp(401, Body(FALSE, "AUTH_REQUIRED", 0, {}, NoAgg))

\* ------------------------------------------------------ request inputs
\* the page parameter of a list request as sent: absent
RawPages == {NullV}
QueryString(rawPage) == IF rawPage = NullV THEN "" ELSE "?page=" \o rawPage
\* BookQuerySchema.parse: page defaults to 1, limit to 10
BookQuerySchema(rawPage) == [page |-> 1, limit |-> 10]

\* an update body that is some other object (its keys are not book fields)
ObjV == "<object>"
UpdateDatas == Titles \cup {EmptyObj, NullV}

SeqsUpTo(S, n) == UNION {[1..k -> S] : k \in 0..n}

\* batch bodies: unreadable, array field missing, or an array of items
BatchBodies(Items) ==
  {BatchBody(FALSE, FALSE, <<>>), BatchBody(TRUE, FALSE, <<>>)}
    \cup {BatchBody(TRUE, TRUE, items) : items \in SeqsUpTo(Items, MaxBatch)}

BatchFaults(Faults) ==
  {NoBatchFault} \cup
  {BatchFault(i, f.at, f.how) : i \in 1..MaxBatch, f \in Faults \ {NoFault}}

\* generateId() results for a batch: distinct ids without a row
FreshIds(d, n) ==
  {s \in [1..n -> {i \in Ids : d[i] = NoRow}] : \A a, b \in 1..n : a # b => s[a] # s[b]}

\* a batch body read by updateBook as its update data
AsUpdateData(body) == IF body.isArray THEN ObjV ELSE EmptyObj

ListKeys == {CacheUtils_getCacheKey("api", Url(<<>>, QueryString(p))) : p \in RawPages}
ItemKey(id) == CacheUtils_getCacheKey("api", Url(<<id>>, ""))

\* ---------------------------------------------------------------- state
\* db      table books: id -> title, or NoRow
\* kv      the KV namespace: key -> stored text, for the keys that have one
\* cacheOn whether env.CACHE is bound
\* last    the last request and what the client got for it
\* stale   history: the keys whose entry was stored before a later write
\*         that the API reported as successful (all list keys, and the item
\*         key of every book updated or deleted)
\* bookStatus: column status of table books (id -> value, NoRow without
\* a row); book_members: the OWNER rows of table book_members per book id
\* inflight: the position of each concurrent request inside its handler;
\* requests: the Map of rateLimit (client -> timestamps); now: Date.now();
\* passed: history, the timestamps of the requests rateLimit passed on
VARIABLES db, kv, cacheOn, last, stale, bookStatus, book_members,
          inflight, requests, now, passed
vars == <<db, kv, cacheOn, last, stale, bookStatus, book_members,
          inflight, requests, now, passed>>

\* batch: the batch body the request carried (NoBatchBody when it carried
\* none); attempted: the items a batch loop attempted
NoBatchBody == BatchBody(FALSE, FALSE, <<>>)

LastB(method, segs, query, route, res, hit, handlerCalls, dbCalls, batch, attempted) ==
  [method |-> method, segs |-> segs, query |-> query, route |-> route,
   status |-> res.status, body |-> res.body, hit |-> hit,
   handlerCalls |-> handlerCalls, dbCalls |-> dbCalls,
   batch |-> batch, attempted |-> attempted, key |-> ""]

\* a request to a cached route: key is the cache key of the request
LastK(method, segs, query, route, res, hit, handlerCalls, dbCalls, key) ==
  [LastB(method, segs, query, route, res, hit, handlerCalls, dbCalls, NoBatchBody, 0)
     EXCEPT !.key = key]

Last(method, segs, query, route, res, hit, handlerCalls, dbCalls) ==
  LastB(method, segs, query, route, res, hit, handlerCalls, dbCalls, NoBatchBody, 0)

NoLast == Last("", <<>>, "", "", Resp(0, ResponseUtils_error(0, NullV)), FALSE, 0, 0)

\* the concurrent requests of the isolate and the clients of rateLimit
Procs == {"p1", "p2"}
Clients == {"ip1", "unknown"}
\* a request at a position of its handler: pc is the await it is at, hangs
\* the storage call of the request that never returns (0: none), report
\* what the request answers, removed whether its DELETE removed a row
Flight(pc, id, hangs, report, removed) ==
  [pc |-> pc, id |-> id, hangs |-> hangs, report |-> report, removed |-> removed]
Idle == Flight("idle", NullV, 0, "none", FALSE)

Init == /\ db = [i \in Ids |-> NoRow]
        /\ kv = <<>>
        /\ cacheOn \in BOOLEAN
        /\ last = NoLast
        /\ stale = {}
        /\ bookStatus = [i \in Ids |-> NoRow]
        /\ book_members = [i \in Ids |-> 0]
        /\ inflight = [p \in Procs |-> Idle]
        /\ requests = <<>>
        /\ now = 0
        /\ passed = [c \in Clients |-> <<>>]

\* a cached GET route: the namespace, the history and the observation
Cached(method, segs, query, route, h, outcome, putThrows) ==
  LET key == CacheUtils_getCacheKey("api", Url(segs, query))
      out == cache(cacheOn, kv, db, key, h, outcome, putThrows)
  IN  /\ db' = out.db
      /\ kv' = out.kv
      /\ stale' = IF out.kv # kv \/ (cacheOn /\ ~out.hit /\ ~putThrows)
                  THEN stale \ {key} ELSE stale
      /\ last' = LastK(method, segs, query, route, out.res, out.hit,
                       out.handlerCalls, out.calls, key)
      /\ UNCHANGED <<cacheOn, bookStatus, book_members, inflight, requests, now, passed>>

\* column status after a write of bodies without a status field: create
\* stores its default 'active', delete removes the row
StatusAfter(d, st, d1) ==
  [i \in DOMAIN d |-> IF d1[i] = NoRow THEN NoRow
                       ELSE IF d[i] = NoRow THEN "active" ELSE st[i]]

\* a write route, past requireMembership (the request carries a token)
Write(method, segs, route, body, h) ==
  /\ db' = h.db
  /\ bookStatus' = StatusAfter(db, bookStatus, h.db)
  /\ last' = LastB(method, segs, "", route, h.res, FALSE, 1, h.calls, body, h.attempted)
  /\ stale' = IF h.wrote = {} THEN stale
              ELSE stale \cup {k \in DOMAIN kv :
                                 \/ k \in ListKeys
                                 \/ method # "POST" /\ \E id \in h.wrote : k = ItemKey(id)}
  /\ UNCHANGED <<kv, cacheOn, book_members, inflight, requests, now, passed>>

\* GET /books?...
HttpGetList ==
  \E rawPage \in RawPages, f \in GetAllFaults, outcome \in GetOutcomes, putThrows \in BOOLEAN :
    LET route == Match("GET", <<>>)
        h == getBooks(db, BookQuerySchema(rawPage), f)
    IN  Cached("GET", <<>>, QueryString(rawPage), route, h, outcome, putThrows)

\* GET /books/<seg>
HttpGetItem ==
  \E seg \in Ids, f \in GetFaults, outcome \in GetOutcomes, putThrows \in BOOLEAN :
    LET route == Match("GET", <<seg>>)
        h == getBookById(db, seg, f)
    IN  Cached("GET", <<seg>>, "", route, h, outcome, putThrows)

\* POST /books
HttpPost ==
  \E title \in Titles, f \in CreateFaults :
    \E newId \in {i \in Ids : db[i] = NoRow} :
      Write("POST", <<>>, Match("POST", <<>>), NoBatchBody, createBook(db, title, newId, f))

\* POST /books/batch
HttpPostBatch ==
  \E body \in BatchBodies({"t1", NullV}),
     bf \in {NoBatchFault, BatchFault(1, 1, "throws")} :
    \E newIds \in FreshIds(db, Len(body.items)) :
      LET route == Match("POST", <<"batch">>)
          h == CASE route = "createMultipleBooks" -> createMultipleBooks(db, body, newIds, bf)
                 [] route = "createBook" -> createBook(db, NullV, NullV, NoFault)
      IN  /\ bf.item <= Len(body.items)
          /\ Write("POST", <<"batch">>, route, body, h)

\* PUT /books/<seg>: a book id with update data, or "batch" with a batch body
HttpPut ==
  \E seg \in Ids \cup {"batch"} :
    LET route == Match("PUT", <<seg>>) IN
    IF seg = "batch"
    THEN \E body \in BatchBodies({UpdateItem("b1", "t1")}) :
           LET h == CASE route = "updateMultipleBooks" ->
                           updateMultipleBooks(db, body, NoBatchFault)
                      [] route = "updateBook" ->
                           updateBook(db, seg, body.parses, AsUpdateData(body), NoFault)
           IN  Write("PUT", <<seg>>, route, body, h)
    ELSE \E data \in UpdateDatas, f \in UpdateFaults :
           Write("PUT", <<seg>>, route, NoBatchBody, updateBook(db, seg, TRUE, data, f))

\* DELETE /books/<seg>: a book id, or "batch" with a batch body
HttpDelete ==
  \E seg \in Ids \cup {"batch"} :
    LET route == Match("DELETE", <<seg>>) IN
    IF seg = "batch"
    THEN \E body \in BatchBodies({"b1"}) :
           LET h == CASE route = "deleteMultipleBooks" ->
                           deleteMultipleBooks(db, body, NoBatchFault)
                      [] route = "deleteBook" -> deleteBook(db, seg, NoFault)
           IN  Write("DELETE", <<seg>>, route, body, h)
    ELSE \E f \in DeleteFaults :
           Write("DELETE", <<seg>>, route, NoBatchBody, deleteBook(db, seg, f))

\* a write request without a Bearer token: requireMembership answers 401
\* and the route's handler is not reached
HttpUnauthorized ==
  \E method \in {"POST", "PUT", "DELETE"}, segs \in {<<>>, <<"batch">>} \cup {<<i>> : i \in Ids} :
    /\ Matching(method, segs) # {}
    /\ last' = Last(method, segs, "", Match(method, segs), AuthRequired, FALSE, 0, 0)
    /\ UNCHANGED <<db, kv, cacheOn, stale, bookStatus, book_members, inflight, requests, now, passed>>

\* the TTL of an entry runs out (expirationTtl)
Expire ==
  \E k \in DOMAIN kv :
    /\ kv' = [j \in DOMAIN kv \ {k} |-> kv[j]]
    /\ stale' = stale \ {k}
    /\ UNCHANGED <<db, cacheOn, last, bookStatus, book_members, inflight, requests, now, passed>>

Writes ==
  \/ HttpPost
  \/ HttpPostBatch
  \/ HttpPut
  \/ HttpDelete
  \/ HttpUnauthorized

\* The list keys and the item keys of the namespace never meet: a list
\* request reads and writes list keys only, an item request item keys only.
\* Each family is explored against every write route.
NextList == HttpGetList \/ Writes \/ Expire
SpecList == Init /\ [][NextList]_vars

NextItem == HttpGetItem \/ Writes \/ Expire
SpecItem == Init /\ [][NextItem]_vars

\* ------------------------------------------- the batch handlers, direct
\* BookController.createMultipleBooks / updateMultipleBooks /
\* deleteMultipleBooks run on a request body, as the /batch routes call them.
CreateItems == Titles \cup {NullV}
UpdateItems == {NullItem, UpdateItem("b1", "t2"), UpdateItem("b2", EmptyObj),
                UpdateItem(NullV, "t2")}
DeleteItems == Ids \cup {NullV}

Ctl(route, body, h) ==
  /\ db' = h.db
  /\ bookStatus' = StatusAfter(db, bookStatus, h.db)
  /\ last' = LastB("", <<>>, "", route, h.res, FALSE, 1, h.calls, body, h.attempted)
  /\ UNCHANGED <<kv, cacheOn, stale, book_members, inflight, requests, now, passed>>

CtlCreateMultipleBooks ==
  \E body \in BatchBodies(CreateItems),
     bf \in BatchFaults({Fault(1, "throws"), Fault(2, "throws")}) :
    \E newIds \in FreshIds(db, Len(body.items)) :
      /\ bf.item <= Len(body.items)
      /\ Ctl("createMultipleBooks", body, createMultipleBooks(db, body, newIds, bf))

CtlUpdateMultipleBooks ==
  \E body \in BatchBodies(UpdateItems), bf \in BatchFaults({Fault(2, "throws")}) :
    /\ bf.item <= Len(body.items)
    /\ Ctl("updateMultipleBooks", body, updateMultipleBooks(db, body, bf))

CtlDeleteMultipleBooks ==
  \E body \in BatchBodies(DeleteItems), bf \in BatchFaults({Fault(2, "throws")}) :
    /\ bf.item <= Len(body.items)
    /\ Ctl("deleteMultipleBooks", body, deleteMultipleBooks(db, body, bf))

NextCtl ==
  \/ CtlCreateMultipleBooks
  \/ CtlUpdateMultipleBooks
  \/ CtlDeleteMultipleBooks
SpecCtl == Init /\ [][NextCtl]_vars

\* --------------------------------------- routes/book.ts: cacheMiddleware
\* The body of a TypeScript response: {success, data, meta} or {success,
\* error, meta}.  payload names the innermost data; envelopes counts the
\* {success, data, meta} objects around it; cached is meta.cached.
TsBody(success, code, payload, envelopes, cached) ==
  [success |-> success, code |-> code, payload |-> payload,
   envelopes |-> envelopes, cached |-> cached]

TsResponseUtils_success(payload) == Resp(200, TsBody(TRUE, "", payload, 1, FALSE))
TsResponseUtils_error(status, code) == Resp(status, TsBody(FALSE, code, "", 0, FALSE))
TsResponseUtils_validationError == TsResponseUtils_error(400, "VALIDATION_ERROR")

\* the static handlers answer sample data; their catch block answers 500
\* "throws": the handler throws an Error; the dispatcher catches it where it
\* was thrown and the error handler of the application answers 500
TsHandlerOutcomes == {"ok", "fails", "throws"}
TsOnError == TsResponseUtils_error(500, "INTERNAL_ERROR")
TsGetBooksHandler(outcome) ==
  IF outcome = "ok" THEN TsResponseUtils_success("sample-books")
  ELSE IF outcome = "throws" THEN TsOnError
  ELSE TsResponseUtils_error(500, "FETCH_BOOKS_ERROR")
TsGetBookByIdHandler(bookId, outcome) ==
  IF outcome = "ok" THEN TsResponseUtils_success(bookId)
  ELSE IF outcome = "throws" THEN TsOnError
  ELSE TsResponseUtils_error(500, "FETCH_BOOK_ERROR")

\* the limit parameter as sent, and z.coerce.number() on it
TsRawLimits == {NullV, "50", "0"}
TsCoerce(text) == IF text = "50" THEN 50 ELSE 0
\* bookQuerySchema.safeParse: limit is a positive integer <= TsMaxLimit,
\* default TsDefaultLimit; offset defaults to 0
TsMaxLimit == 100
TsDefaultLimit == 20
bookQuerySchema(rawLimit) ==
  LET limit == IF rawLimit = NullV THEN TsDefaultLimit ELSE TsCoerce(rawLimit) IN
  [success |-> limit > 0 /\ limit <= TsMaxLimit,
   data |-> [limit |-> limit, offset |-> 0]]

\* `books:list:${JSON.stringify(validatedQuery)}` and `book:${bookId}`
TsListKey(query) ==
  "books:list:{limit:" \o ToString(query.limit) \o ",offset:" \o ToString(query.offset) \o "}"
TsBookKey(bookId) == "book:" \o bookId

\* The dispatcher of the framework runs the next handler once: a second
\* next() of the same middleware rejects ("next() called multiple times"),
\* and a rejection that leaves a middleware becomes the 500 of the error
\* handler.
NextCalledTwice == TsResponseUtils_error(500, "INTERNAL_ERROR")

\* fault: the step of the cache collaborator that failed in this request
\* ("none", "get", "parse", "put")
TsMwRet(res, kvs, hit, handlerCalls, fault) ==
  [res |-> res, kv |-> kvs, hit |-> hit, handlerCalls |-> handlerCalls, fault |-> fault]

\* cacheMiddleware(keyGenerator, ttl); h is the response of the handler
cacheMiddleware_rerun(on, kvs, key, h, outcome, putThrows) ==
  IF ~on THEN TsMwRet(h, kvs, FALSE, 1, "none")
  ELSE IF outcome = "throws" THEN TsMwRet(h, kvs, FALSE, 1, "get")
  ELSE IF outcome = "garbage" THEN TsMwRet(h, kvs, FALSE, 1, "parse")
  ELSE IF key \in DOMAIN kvs
  THEN LET data == Parse(kvs[key]) IN
       TsMwRet(Resp(200, TsBody(TRUE, "", data.payload, data.envelopes + 1, TRUE)),
               kvs, TRUE, 0, "none")
  ELSE IF h.status # 200 THEN TsMwRet(h, kvs, FALSE, 1, "none")
  ELSE IF putThrows THEN TsMwRet(h, kvs, FALSE, 2, "put")
  ELSE TsMwRet(h, [k \in DOMAIN kvs \cup {key} |->
                     IF k = key THEN Stringify(h.body) ELSE kvs[k]], FALSE, 1, "none")
cacheMiddleware(on, kvs, key, h, outcome, putThrows) ==
  IF ~on THEN TsMwRet(h, kvs, FALSE, 1, "none")
  ELSE IF outcome = "throws" THEN TsMwRet(h, kvs, FALSE, 1, "get")
  ELSE IF outcome = "garbage" THEN TsMwRet(h, kvs, FALSE, 1, "parse")
  ELSE IF key \in DOMAIN kvs
  THEN LET data == Parse(kvs[key]) IN
       TsMwRet(Resp(200, TsBody(TRUE, "", data.payload, data.envelopes + 1, TRUE)),
               kvs, TRUE, 0, "none")
  ELSE IF h.status # 200 THEN TsMwRet(h, kvs, FALSE, 1, "none")
  ELSE IF putThrows THEN TsMwRet(NextCalledTwice, kvs, FALSE, 1, "put")
  ELSE TsMwRet(h, [k \in DOMAIN kvs \cup {key} |->
                     IF k = key THEN Stringify(h.body) ELSE kvs[k]], FALSE, 1, "none")

\* the observation of a TypeScript request also keeps what the handler
\* answered (handled) and the cache step that failed (cacheFault)
TsLast(segs, query, route, res, hit, handlerCalls, key, handled, cacheFault) ==
  [method |-> "GET", segs |-> segs, query |-> query, route |-> route,
   status |-> res.status, body |-> res.body, hit |-> hit,
   handlerCalls |-> handlerCalls, dbCalls |-> 0,
   batch |-> NoBatchBody, attempted |-> 0, key |-> key,
   handled |-> handled, cacheFault |-> cacheFault]

TsCached(segs, query, route, key, h, outcome, putThrows) ==
  LET out == cacheMiddleware(cacheOn, kv, key, h, outcome, putThrows) IN
  /\ kv' = out.kv
  /\ last' = TsLast(segs, query, route, out.res, out.hit, out.handlerCalls, key,
                    IF out.handlerCalls = 0 THEN TsResponseUtils_error(0, NullV) ELSE h,
                    out.fault)
  /\ UNCHANGED <<db, cacheOn, stale, bookStatus, book_members, inflight, requests, now, passed>>

\* GET /books?limit=...: queryValidationMiddleware, cacheMiddleware, getBooks
TsGetBooks ==
  \E rawLimit \in TsRawLimits, ho \in TsHandlerOutcomes, outcome \in GetOutcomes,
     putThrows \in BOOLEAN :
    LET parsed == bookQuerySchema(rawLimit) IN
    IF ~parsed.success
    THEN /\ last' = TsLast(<<>>, rawLimit, "ts.getBooks", TsResponseUtils_validationError,
                           FALSE, 0, "", TsResponseUtils_error(0, NullV), "none")
         /\ UNCHANGED <<db, kv, cacheOn, stale, bookStatus, book_members, inflight, requests, now, passed>>
    ELSE TsCached(<<>>, rawLimit, "ts.getBooks", TsListKey(parsed.data),
                  TsGetBooksHandler(ho), outcome, putThrows)

\* GET /books/:bookId: cacheMiddleware, getBookById (the validator in front
\* of it is left out)
TsGetBookById ==
  \E bookId \in Ids, ho \in TsHandlerOutcomes, outcome \in GetOutcomes,
     putThrows \in BOOLEAN :
    TsCached(<<bookId>>, "", "ts.getBookById", TsBookKey(bookId),
             TsGetBookByIdHandler(bookId, ho), outcome, putThrows)

NextTs == TsGetBooks \/ TsGetBookById \/ Expire
SpecTs == Init /\ [][NextTs]_vars

\* ------------------------------------------ GET /books/stats/overview
\* the six aggregate queries of getStatistics, in the order of its loop
StatKeys == <<"total", "active", "inactive", "archived", "by_genre", "by_author">>
Grouped == {"by_genre", "by_author"}
\* key.includes('_') ? [] : 0
StatDefault(key) == IF key \in Grouped THEN <<>> ELSE 0

\* what the query of a key gives on table d: COUNT(*) (with its status
\* filter), or the groups of a GROUP BY (one group per stored title)
StatQuery(d, st, key) ==
  LET rows == {i \in DOMAIN d : d[i] # NoRow}
      groups == {d[i] : i \in rows}
  IN  CASE key = "total" -> Cardinality(rows)
        [] key \in {"active", "inactive", "archived"} ->
             Cardinality({i \in rows : st[i] = key})
        [] OTHER -> IF groups = {} THEN <<>>
                    ELSE <<[count |-> Cardinality(rows)]>>

NoStats == [k \in {StatKeys[i] : i \in DOMAIN StatKeys} |-> StatDefault(k)]

\* models/book.js imports DatabaseUtils, Utils, NotFoundError and
\* DatabaseError only: the catch block of the loop evaluates
\* `Logger.error(...)` with no binding for Logger
LoggerFailure == Err("ReferenceError", "Logger is not defined")

\* failed: the keys whose storage call rejects
RECURSIVE statLoop(_, _, _, _, _)
statLoop(i, results, d, st, failed) ==
  IF i > Len(StatKeys) THEN [err |-> NoErr, stats |-> results, calls |-> i - 1]
  ELSE IF StatKeys[i] \in failed
  THEN [err |-> LoggerFailure, stats |-> results, calls |-> i]
  ELSE statLoop(i + 1, [results EXCEPT ![StatKeys[i]] = StatQuery(d, st, StatKeys[i])],
                d, st, failed)
getStatistics(d, st, failed) == statLoop(1, NoStats, d, st, failed)

StatsBody(success, code, status, stats) ==
  [success |-> success, code |-> code, status |-> status, stats |-> stats]

getBookStatistics(d, st, failed) ==
  LET r == getStatistics(d, st, failed) IN
  IF r.err = NoErr
  THEN CRet(Resp(200, StatsBody(TRUE, "", 200, r.stats)), d, r.calls, {})
  ELSE CRet(Resp(500, StatsBody(FALSE, "STATISTICS_ERROR", 500, NoStats)), d, r.calls, {})

\* a record with one more field
Extend(r, name, v) == [k \in DOMAIN r \cup {name} |-> IF k = name THEN v ELSE r[k]]

\* the sets of failing queries tried: none, each one alone, one scalar
\* with one grouped query, all six
FailedSets ==
  LET keys == {StatKeys[i] : i \in DOMAIN StatKeys}
  IN  {{}, {"active", "by_genre"}, keys} \cup {{k} : k \in keys}

\* GET /books/stats/overview: cache(900), getBookStatistics
HttpGetStats ==
  \E failed \in FailedSets,
     outcome \in GetOutcomes, putThrows \in BOOLEAN :
    LET segs == <<"stats", "overview">>
        key == CacheUtils_getCacheKey("api", Url(segs, ""))
        out == cache(cacheOn, kv, db, key, getBookStatistics(db, bookStatus, failed),
                     outcome, putThrows)
    IN  /\ kv' = out.kv
        /\ last' = Extend(LastK("GET", segs, "", Match("GET", segs), out.res, out.hit,
                                out.handlerCalls, out.calls, key), "failed", failed)
        /\ UNCHANGED <<db, cacheOn, stale, bookStatus, book_members, inflight, requests, now, passed>>

NextStats == HttpGetStats \/ HttpPost \/ Expire
SpecStats == Init /\ [][NextStats]_vars

\* ---------------------------------- index.ts: the inline application
\* Tables books (id -> name in db) and book_members (OWNER rows per book).
\* A storage call fails because the statement rejects (fault), or because
\* a constraint of schema.sql rejects the row.
StorageMessage == "D1_ERROR: storage unavailable"
ModuleTypes == {"PERSONAL", "BUSINESS"}

\* [err, db, members] of one statement
SRet(err, d, mem) == [err |-> err, db |-> d, members |-> mem]

\* INSERT INTO books: id is the primary key, module_type has a CHECK
InsertBook(d, mem, id, name, module_type, rejects) ==
  IF rejects THEN SRet(Err("Error", StorageMessage), d, mem)
  ELSE IF d[id] # NoRow THEN SRet(Err("Error", "UNIQUE constraint failed: books.id"), d, mem)
  ELSE IF module_type \notin ModuleTypes
  THEN SRet(Err("Error", "CHECK constraint failed: module_type"), d, mem)
  ELSE SRet(NoErr, [d EXCEPT ![id] = name], mem)

\* INSERT INTO book_members (..., 'OWNER'): (book_id, user_id) is the key
InsertOwner(d, mem, id, rejects) ==
  IF rejects THEN SRet(Err("Error", StorageMessage), d, mem)
  ELSE IF mem[id] > 0
  THEN SRet(Err("Error", "UNIQUE constraint failed: book_members"), d, mem)
  ELSE SRet(NoErr, d, [mem EXCEPT ![id] = 1])

\* the body of an inline response: {success, data | error:{message,
\* details}, meta}; details is error.message of the error caught
InlineResp(status, success, message, details) ==
  [status |-> status, success |-> success, message |-> message, details |-> details]

\* the body of POST /books: parses = FALSE when c.req.json() rejects
PostBody(parses, name, module_type) ==
  [parses |-> parses, name |-> name, module_type |-> module_type]

\* app.post('/books'): fault = the storage call (1, 2, 3) that rejects
app_post_books(d, mem, body, newId, fault) ==
  LET failed(e, d1, m1) ==
        [res |-> InlineResp(500, FALSE, "Failed to create book", e.message),
         db |-> d1, members |-> m1]
      b == InsertBook(d, mem, newId, body.name, body.module_type, fault = 1)
      o == InsertOwner(b.db, b.members, newId, fault = 2)
  IN  IF ~body.parses
      THEN failed(Err("SyntaxError", "Unexpected end of JSON input"), d, mem)
      ELSE IF body.name = NullV \/ body.module_type = NullV
      THEN [res |-> InlineResp(400, FALSE, "Name and module_type are required", NullV),
            db |-> d, members |-> mem]
      ELSE IF b.err # NoErr THEN failed(b.err, b.db, b.members)
      ELSE IF o.err # NoErr THEN failed(o.err, o.db, o.members)
      ELSE IF fault = 3 THEN failed(Err("Error", StorageMessage), o.db, o.members)
      ELSE [res |-> InlineResp(201, TRUE, "", NullV), db |-> o.db, members |-> o.members]

\* DatabaseUtils.executeWithRetry(operation, maxRetries = 3) around the two
\* inserts of BookModel.create; plan[attempt] is the statement (1 = books,
\* 2 = book_members, 0 = none) that rejects in that attempt
MaxRetries == 3
RECURSIVE executeWithRetry(_, _, _, _, _, _)
\* tries is the error of each invocation of operation, in order
TryRet(r, tries) == [err |-> r.err, db |-> r.db, members |-> r.members, tries |-> tries]
executeWithRetry_no_retry(attempt, d, mem, id, data, plan) ==
  LET b == InsertBook(d, mem, id, data.name, data.module_type, plan[attempt] = 1)
      o == InsertOwner(b.db, b.members, id, plan[attempt] = 2)
      r == IF b.err # NoErr THEN b ELSE o
  IN  TryRet(r, <<r.err>>)
executeWithRetry(attempt, d, mem, id, data, plan) ==
  LET b == InsertBook(d, mem, id, data.name, data.module_type, plan[attempt] = 1)
      o == InsertOwner(b.db, b.members, id, plan[attempt] = 2)
      r == IF b.err # NoErr THEN b ELSE o
  IN  IF r.err = NoErr \/ attempt = MaxRetries THEN TryRet(r, <<r.err>>)
      ELSE LET n == executeWithRetry(attempt + 1, r.db, r.members, id, data, plan)
           IN  TryRet(n, <<r.err>> \o n.tries)

\* BookModel.create (TypeScript): the retried inserts, then findById
BookModel_create(d, mem, data, id, plan) ==
  LET r == executeWithRetry(1, d, mem, id, data, plan)
      err == IF r.err # NoErr THEN r.err
             ELSE IF r.db[id] = NoRow THEN Err("Error", "Failed to create book")
             ELSE NoErr
  IN  [err |-> err, db |-> r.db, members |-> r.members, tries |-> r.tries,
       retried |-> r.err]

\* A JavaScript number that is an integer, Infinity or NaN
JsInt(v) == [kind |-> "int", value |-> v]
JsInfinity == [kind |-> "Infinity", value |-> 0]
JsNaN == [kind |-> "NaN", value |-> 0]
\* Math.ceil(a / b) and Math.floor(a / b) for integers a >= 0 and b
MathCeilDiv(a, b) ==
  IF b = 0 THEN (IF a = 0 THEN JsNaN ELSE JsInfinity)
  ELSE IF b > 0 THEN JsInt((a + b - 1) \div b)
  ELSE JsInt(0 - (a \div (0 - b)))
MathFloorDiv(a, b) ==
  IF b = 0 THEN (IF a = 0 THEN JsNaN ELSE JsInfinity)
  ELSE IF b > 0 THEN JsInt(a \div b)
  ELSE JsInt(0 - ((a - b - 1) \div (0 - b)))
JsPlusOne(n) == IF n.kind = "int" THEN JsInt(n.value + 1) ELSE n

\* the limit and offset parameters as sent (NullV: not sent), and
\* parseInt(text || fallback) on them
RawLimits == {NullV, "1", "2", "0", "-1", "1000"}
RawOffsets == {NullV, "1", "2"}
InlineDefaultLimit == 20
parseInt(text, fallback) ==
  CASE text = NullV -> fallback
    [] text = "1" -> 1
    [] text = "2" -> 2
    [] text = "0" -> 0
    [] text = "-1" -> 0 - 1
    [] text = "1000" -> 1000

\* books JOIN book_members: the ids of the joined rows
Joined(d, mem) == {i \in DOMAIN d : d[i] # NoRow /\ mem[i] > 0}
\* rows a SELECT ... LIMIT l OFFSET o returns out of n (SQLite: a negative
\* LIMIT is no limit)
Min(a, b) == IF a < b THEN a ELSE b
Max(a, b) == IF a > b THEN a ELSE b
LimitOffset(n, l, o) ==
  LET avail == Max(n - Max(o, 0), 0) IN IF l < 0 THEN avail ELSE Min(l, avail)

NoPagination ==
  [page |-> JsNaN, limit |-> 0, total |-> 0, totalPages |-> JsNaN, count |-> 0,
   boundLimit |-> 0, boundOffset |-> 0]

\* app.get('/books'): fault = the storage call (1 count, 2 page) that rejects
app_get_books(d, mem, rawLimit, rawOffset, fault) ==
  LET limit == parseInt(rawLimit, InlineDefaultLimit)
      offset == parseInt(rawOffset, 0)
      total == Cardinality(Joined(d, mem))
  IN  IF fault \in {1, 2}
      THEN [res |-> InlineResp(500, FALSE, "Failed to fetch books", StorageMessage),
            pagination |-> [NoPagination EXCEPT !.boundLimit = IF fault = 2 THEN limit ELSE 0,
                                                !.boundOffset = IF fault = 2 THEN offset ELSE 0]]
      ELSE [res |-> InlineResp(200, TRUE, "", NullV),
            pagination |-> [page |-> JsPlusOne(MathFloorDiv(offset, limit)),
                            limit |-> limit, total |-> total,
                            totalPages |-> MathCeilDiv(total, limit),
                            count |-> LimitOffset(total, limit, offset),
                            boundLimit |-> limit, boundOffset |-> offset]]

\* what the client of the inline application observes
InlineLast(route, res, pagination, body, newId, fault) ==
  [route |-> route, status |-> res.status, success |-> res.success,
   message |-> res.message, details |-> res.details, pagination |-> pagination,
   body |-> body, newId |-> newId, fault |-> fault]

InlineGetBooks ==
  \E rawLimit \in RawLimits, rawOffset \in RawOffsets, fault \in 0..2 :
    LET r == app_get_books(db, book_members, rawLimit, rawOffset, fault) IN
    /\ last' = InlineLast("app.get /books", r.res, r.pagination,
                          PostBody(FALSE, NullV, NullV), NullV, fault)
    /\ UNCHANGED <<db, kv, cacheOn, stale, bookStatus, book_members, inflight, requests, now, passed>>

PostBodies ==
  {PostBody(FALSE, NullV, NullV), PostBody(TRUE, NullV, "PERSONAL")}
    \cup {PostBody(TRUE, n, m) : n \in Titles, m \in {"PERSONAL", "GOLD"}}

InlinePostBooks ==
  \E body \in PostBodies, newId \in {i \in Ids : db[i] = NoRow}, fault \in 0..3 :
    LET r == app_post_books(db, book_members, body, newId, fault) IN
    /\ db' = r.db
    /\ book_members' = r.members
    /\ last' = InlineLast("app.post /books", r.res, NoPagination, body, newId, fault)
    /\ UNCHANGED <<kv, cacheOn, stale, bookStatus, inflight, requests, now, passed>>

\* BookModel.create called with well-typed data
ModelCreate ==
  \E name \in Titles, newId \in {i \in Ids : db[i] = NoRow},
     plan \in [1..MaxRetries -> 0..2] :
    LET data == PostBody(TRUE, name, "BUSINESS")
        r == BookModel_create(db, book_members, data, newId, plan)
    IN  /\ db' = r.db
        /\ book_members' = r.members
        /\ last' = Extend(Extend(InlineLast("BookModel.create",
                              InlineResp(0, r.err = NoErr, r.err.message, NullV),
                              NoPagination, data, newId, 0),
                            "tries", r.tries), "retried", r.retried)
        /\ UNCHANGED <<kv, cacheOn, stale, bookStatus, inflight, requests, now, passed>>

NextInline == InlineGetBooks \/ InlinePostBooks \/ ModelCreate
SpecInline == Init /\ [][NextInline]_vars

\* ------------------------- index.js: validators, membership, onError
\* app.onError: every error that leaves a middleware is answered 500 with
\* err.message in the body
OnError(err) == Resp(500, [error |-> "Internal server error", message |-> err.message])

\* validate(schema, source): valid = schema.parse succeeds; h = what the
\* rest of the route answers.  A failure is thrown as ValidationError.
validate(valid, d, h) ==
  IF valid THEN h ELSE CRet(OnError(ValidationError("Validation failed")), d, 0, {})

\* the limit parameter of a list request, and BookQuerySchema.parse on the
\* query: limit is a positive integer <= JsMaxLimit, default JsDefaultLimit
JsRawLimits == {NullV, "5", "1000"}
JsMaxLimit == 100
JsDefaultLimit == 10
JsCoerce(text) == IF text = "5" THEN 5 ELSE 1000
BookQuerySchema_parse(rawLimit) ==
  LET limit == IF rawLimit = NullV THEN JsDefaultLimit ELSE JsCoerce(rawLimit) IN
  [success |-> limit > 0 /\ limit <= JsMaxLimit, data |-> [page |-> 1, limit |-> limit]]
JsQueryString(rawLimit) == IF rawLimit = NullV THEN "" ELSE "?limit=" \o rawLimit

\* the status field of a body, and BookSchema.parse on it
StatusEnum == {"active", "inactive", "archived"}
BookSchema_parse(bodyStatus) == bodyStatus = NullV \/ bodyStatus \in StatusEnum

\* what the client of the JavaScript application observes, with the
\* accesses made while the request was handled
JsLast(method, segs, query, route, res, hit, handlerCalls, dbCalls, valid, cacheGets,
       cachePuts, principal, fault, sql) ==
  [method |-> method, segs |-> segs, query |-> query, route |-> route,
   status |-> res.status, body |-> res.body, hit |-> hit,
   handlerCalls |-> handlerCalls, dbCalls |-> dbCalls, valid |-> valid,
   cacheGets |-> cacheGets, cachePuts |-> cachePuts, principal |-> principal,
   fault |-> fault, sql |-> sql]

\* GET /books?limit=...: cache(300), validate(BookQuerySchema, 'query'), getBooks
JsGetList ==
  \E rawLimit \in JsRawLimits, outcome \in GetOutcomes, putThrows \in BOOLEAN :
    LET parsed == BookQuerySchema_parse(rawLimit)
        query == JsQueryString(rawLimit)
        key == CacheUtils_getCacheKey("api", Url(<<>>, query))
        h == validate(parsed.success, db, getBooks(db, parsed.data, NoFault))
        out == cache(cacheOn, kv, db, key, h, outcome, putThrows)
    IN  /\ kv' = out.kv
        /\ last' = JsLast("GET", <<>>, query, Match("GET", <<>>), out.res, out.hit,
                          IF parsed.success THEN out.handlerCalls ELSE 0, out.calls,
                          parsed.success, IF cacheOn THEN 1 ELSE 0,
                          IF cacheOn /\ ~out.hit THEN 1 ELSE 0, "none", NoFault, "")
        /\ UNCHANGED <<db, cacheOn, stale, bookStatus, book_members, inflight, requests, now, passed>>

\* who sends a write request: no Authorization header, or the Bearer token
\* of a principal whose membership level is basic / premium
Principals == {"none", "basic", "premium"}
\* requireMembership(requiredLevel) in front of each write route
RequiredLevel(route) == IF route \in {"createBook", "updateBook"} THEN "basic" ELSE "premium"
\* requireMembership: without a Bearer token 401; otherwise the level is
\* set to 'premium' and next() runs, whatever requiredLevel is
requireMembership(requiredLevel, principal, d, h) ==
  IF principal = "none" THEN CRet(AuthRequired, d, 0, {}) ELSE h

\* the text BookModel.update builds from the keys of the update body
RECURSIVE JoinFields(_)
JoinFields(fields) ==
  IF Len(fields) = 0 THEN ""
  ELSE IF Len(fields) = 1 THEN fields[1]
  ELSE fields[1] \o ", " \o JoinFields(Tail(fields))
UpdateQuery(keys) ==
  LET updateFields == [i \in 1..Len(keys) |-> keys[i] \o " = ?"]
  IN  "UPDATE books SET " \o JoinFields(Append(updateFields, "updated_at = ?"))
        \o " WHERE id = ?"

\* the columns a body may name (BookSchema), and the keys tried in a body
DeclaredFields == {"title", "status"}
InjectedKey == "status = 'archived' --"
UpdateKeys == DeclaredFields \cup {InjectedKey}

\* POST /books: requireMembership('basic'), validate(BookSchema), createBook
JsPost ==
  \E principal \in Principals, title \in Titles, bodyStatus \in {NullV, "bogus"},
     f \in {NoFault, Fault(1, "throws"), Fault(1, "nosuccess")} :
    \E newId \in {i \in Ids : db[i] = NoRow} :
      LET valid == BookSchema_parse(bodyStatus)
          h == requireMembership("basic", principal, db,
                 validate(valid, db, createBook(db, title, newId, f)))
          reached == principal # "none" /\ valid
      IN  /\ db' = h.db
          /\ bookStatus' = StatusAfter(db, bookStatus, h.db)
          /\ last' = JsLast("POST", <<>>, "", Match("POST", <<>>), h.res, FALSE,
                            IF reached THEN 1 ELSE 0, h.calls,
                            principal = "none" \/ valid, 0, 0, principal, f, "")
          /\ UNCHANGED <<kv, cacheOn, stale, book_members, inflight, requests, now, passed>>

\* PUT /books/:id with a body of one key: requireMembership('basic'),
\* validate(IdParamSchema, 'param'), updateBook.  The statement sets the
\* column the key names; storage rejects a statement that is not an update
\* of a column
JsPut ==
  \E principal \in Principals, id \in Ids, key \in UpdateKeys,
     value \in {"archived", "bogus"} :
    LET col == IF key = "status" THEN bookStatus ELSE db
        f == IF key \in DeclaredFields THEN NoFault ELSE Fault(2, "throws")
        h == requireMembership("basic", principal, col,
               validate(TRUE, col, updateBook(col, id, TRUE, value, f)))
    IN  /\ db' = IF key = "status" THEN db ELSE h.db
        /\ bookStatus' = IF key = "status" THEN h.db ELSE bookStatus
        /\ last' = JsLast("PUT", <<id>>, "", Match("PUT", <<id>>), h.res, FALSE,
                          IF principal = "none" THEN 0 ELSE 1, h.calls, TRUE, 0, 0,
                          principal, f, IF h.calls >= 2 THEN UpdateQuery(<<key>>) ELSE "")
        /\ UNCHANGED <<kv, cacheOn, stale, book_members, inflight, requests, now, passed>>

\* DELETE /books/:id: requireMembership('premium'),
\* validate(IdParamSchema, 'param'), deleteBook
JsDelete ==
  \E principal \in Principals, id \in Ids :
    LET h == requireMembership("premium", principal, db,
               validate(TRUE, db, deleteBook(db, id, NoFault)))
    IN  /\ db' = h.db
        /\ bookStatus' = StatusAfter(db, bookStatus, h.db)
        /\ last' = JsLast("DELETE", <<id>>, "", Match("DELETE", <<id>>), h.res, FALSE,
                          IF principal = "none" THEN 0 ELSE 1, h.calls, TRUE, 0, 0,
                          principal, NoFault, "")
        /\ UNCHANGED <<kv, cacheOn, stale, book_members, inflight, requests, now, passed>>

\* the cached list route against creates, and the write routes alone
NextJsRead == JsGetList \/ JsPost \/ Expire
SpecJsRead == Init /\ [][NextJsRead]_vars

NextJsWrite == JsPost \/ JsPut \/ JsDelete
SpecJsWrite == Init /\ [][NextJsWrite]_vars

\* ------------------------------------------- JS app, sorted list requests
\* app.notFound: the answer to a request no route matches
notFound == Resp(404, [error |-> "Endpoint not found"])

\* the sort_by / sort_order parameters of a list request
SortParams(sort_by, sort_order) == [sort_by |-> sort_by, sort_order |-> sort_order]
RawSorts == {SortParams(NullV, NullV), SortParams("title", "asc"),
             SortParams("genre", NullV), SortParams("rating", NullV)}
SortByEnum == {"title", "author", "created_at", "updated_at"}
SortOrderEnum == {"asc", "desc"}
\* BookQuerySchema.parse on the sort parameters: two enums with defaults
BookQuerySchema_sort(rawSortBy, rawSortOrder) ==
  [success |-> /\ rawSortBy \in SortByEnum \cup {NullV}
               /\ rawSortOrder \in SortOrderEnum \cup {NullV},
   data |-> [sort_by |-> IF rawSortBy = NullV THEN "created_at" ELSE rawSortBy,
             sort_order |-> IF rawSortOrder = NullV THEN "desc" ELSE rawSortOrder]]
SortQueryString(rawSortBy, rawSortOrder) ==
  (IF rawSortBy = NullV THEN "?" ELSE "?sort_by=" \o rawSortBy)
    \o (IF rawSortOrder = NullV THEN "" ELSE "&sort_order=" \o rawSortOrder)

\* const { key = default } = options
Destructure(options, key, default) ==
  IF key \in DOMAIN options THEN options[key] ELSE default
toUpperCase(text) ==
  IF text = "asc" THEN "ASC" ELSE IF text = "desc" THEN "DESC" ELSE text
validSortColumns == {"title", "author", "created_at", "updated_at", "status", "genre"}
\* the ORDER BY terms of booksQuery in BookModel.getAll
OrderTerm(column, direction) == [column |-> column, direction |-> direction]
booksQuery_orderBy(options) ==
  LET sortBy == Destructure(options, "sortBy", "created_at")
      sortOrder == Destructure(options, "sortOrder", "desc")
      sortColumn == IF sortBy \in validSortColumns THEN sortBy ELSE "created_at"
      sortDirection == IF toUpperCase(sortOrder) = "ASC" THEN "ASC" ELSE "DESC"
  IN  <<OrderTerm(sortColumn, sortDirection)>>

\* GET /books?sort_by=..&sort_order=..: cache(300),
\* validate(BookQuerySchema, 'query'), getBooks -> getAll(validatedData)
JsGetSorted ==
  \E raw \in RawSorts, outcome \in GetOutcomes, putThrows \in BOOLEAN :
    LET rawSortBy == raw.sort_by
        rawSortOrder == raw.sort_order
        parsed == BookQuerySchema_sort(rawSortBy, rawSortOrder)
        page == BookQuerySchema_parse(NullV).data
        query == SortQueryString(rawSortBy, rawSortOrder)
        key == CacheUtils_getCacheKey("api", Url(<<>>, query))
        h == validate(parsed.success, db, getBooks(db, page, NoFault))
        out == cache(cacheOn, kv, db, key, h, outcome, putThrows)
        ran == parsed.success /\ out.handlerCalls = 1
        obs == JsLast("GET", <<>>, query, Match("GET", <<>>), out.res, out.hit,
                      IF parsed.success THEN out.handlerCalls ELSE 0, out.calls,
                      parsed.success, IF cacheOn THEN 1 ELSE 0,
                      IF cacheOn /\ ~out.hit THEN 1 ELSE 0, "none", NoFault, "")
    IN  /\ kv' = out.kv
        /\ last' = Extend(Extend(Extend(obs,
                     "orderBy", IF ran THEN booksQuery_orderBy(parsed.data) ELSE <<>>),
                     "sort_by", rawSortBy), "sort_order", rawSortOrder)
        /\ UNCHANGED <<db, cacheOn, stale, bookStatus, book_members, inflight, requests, now, passed>>

\* a request that no route of the application matches
JsNotFound ==
  \E method \in {"PATCH"}, segs \in {<<>>, <<"b1">>} :
    /\ Matching(method, segs) = {}
    /\ last' = JsLast(method, segs, "", "", notFound, FALSE, 0, 0, TRUE, 0, 0,
                      "none", NoFault, "")
    /\ UNCHANGED <<db, kv, cacheOn, stale, bookStatus, book_members, inflight, requests, now, passed>>


\* ------------------------------------------------------------ rateLimit
\* rateLimit(maxRequests, windowMs) is installed with RateMax and WindowMs;
\* the clock runs from 0 to MaxTime.
RateMax == 2
WindowMs == 2
MaxTime == 3

\* c.req.header('cf-connecting-ip') || c.req.header('x-forwarded-for') || 'unknown'
HeaderValues == {NullV, "ip1"}
ClientIp(cf, xff) == IF cf # NullV THEN cf ELSE IF xff # NullV THEN xff ELSE "unknown"

\* Map.get / Map.set on the requests Map
MapGet(m, k) == IF k \in DOMAIN m THEN m[k] ELSE <<>>
MapSet(m, k, v) == [c \in DOMAIN m \cup {k} |-> IF c = k THEN v ELSE m[c]]
\* requests.get(clientIp).filter(time => time > windowStart)
Recent(times, windowStart) == SelectSeq(times, LAMBDA time : time > windowStart)

RateRet(reqs, status, nextCalls) ==
  [requests |-> reqs, status |-> status, nextCalls |-> nextCalls]
rateLimit_off_by_one(reqs, clientIp, t) ==
  LET windowStart == t - WindowMs
      cleaned == IF clientIp \in DOMAIN reqs
                 THEN MapSet(reqs, clientIp, Recent(reqs[clientIp], windowStart))
                 ELSE reqs
      currentRequests == MapGet(cleaned, clientIp)
  IN  IF Len(currentRequests) > RateMax THEN RateRet(cleaned, 429, 0)
      ELSE RateRet(MapSet(cleaned, clientIp, Append(currentRequests, t)), 200, 1)
rateLimit(reqs, clientIp, t) ==
  LET windowStart == t - WindowMs
      cleaned == IF clientIp \in DOMAIN reqs
                 THEN MapSet(reqs, clientIp, Recent(reqs[clientIp], windowStart))
                 ELSE reqs
      currentRequests == MapGet(cleaned, clientIp)
  IN  IF Len(currentRequests) >= RateMax THEN RateRet(cleaned, 429, 0)
      ELSE RateRet(MapSet(cleaned, clientIp, Append(currentRequests, t)), 200, 1)

\* how many of the requests passed on for a client lie in the window at t
InWindow(times, t) == Len(Recent(times, t - WindowMs))

\* the observation of a rate-limited request: inWindow is the count of the
\* client before the request, recorded whether the Map got a new timestamp,
\* othersChanged whether the entry of any other client changed
RateLast(clientIp, res, inWindow, recorded, othersChanged) ==
  [method |-> "GET", route |-> "rateLimit", clientIp |-> clientIp,
   status |-> res.status, nextCalls |-> res.nextCalls, inWindow |-> inWindow,
   recorded |-> recorded, othersChanged |-> othersChanged]

RateRequest ==
  \E cf \in HeaderValues, xff \in HeaderValues :
    LET clientIp == ClientIp(cf, xff)
        res == rateLimit(requests, clientIp, now)
    IN  /\ requests' = res.requests
        /\ passed' = IF res.nextCalls = 1
                     THEN [passed EXCEPT ![clientIp] = Append(@, now)]
                     ELSE passed
        /\ last' = RateLast(clientIp, res, InWindow(passed[clientIp], now),
                     Len(MapGet(res.requests, clientIp))
                       > InWindow(MapGet(requests, clientIp), now),
                     \E c \in Clients \ {clientIp} :
                       MapGet(res.requests, c) # MapGet(requests, c))
        /\ UNCHANGED <<db, kv, cacheOn, stale, bookStatus, book_members, inflight, now>>

\* Date.now() advances
Tick ==
  /\ now < MaxTime
  /\ now' = now + 1
  /\ UNCHANGED <<db, kv, cacheOn, last, stale, bookStatus, book_members, inflight, requests, passed>>

NextRate == RateRequest \/ Tick
SpecRate == Init /\ [][NextRate]_vars

\* ------------------------------------------- concurrent DELETE requests
\* DELETE /books/:id by request p, one step per await of BookModel.delete.
\* DatabaseUtils awaits db.prepare(..).run()/first() directly: a call that
\* never returns leaves the request at its await.
HangsAt == 0..2
DeleteArrives(p) ==
  \E id \in Ids, hangs \in HangsAt :
    /\ inflight[p].pc = "idle"
    /\ inflight' = [inflight EXCEPT ![p] = Flight("getById", id, hangs, "none", FALSE)]
    /\ UNCHANGED <<db, kv, cacheOn, last, stale, bookStatus, book_members, requests, now, passed>>

\* await this.getById(id) returns: NotFoundError ends the request with 404
DeleteGetById(p) ==
  LET r == inflight[p]
      g == getById(db, r.id, FALSE)
  IN  /\ r.pc = "getById" /\ r.hangs # 1
      /\ inflight' = [inflight EXCEPT ![p] =
                        IF g.err # NoErr
                        THEN Flight("done", r.id, r.hangs, "not_found", FALSE)
                        ELSE Flight("executeRun", r.id, r.hangs, "none", FALSE)]
      /\ UNCHANGED <<db, kv, cacheOn, last, stale, bookStatus, book_members, requests, now, passed>>

\* await DatabaseUtils.executeRun(DELETE FROM books WHERE id = ?) returns:
\* result.success is true whether or not a row was removed
DeleteExecuteRun(p) ==
  LET r == inflight[p] IN
  /\ r.pc = "executeRun" /\ r.hangs # 2
  /\ db' = [db EXCEPT ![r.id] = NoRow]
  /\ bookStatus' = StatusAfter(db, bookStatus, db')
  /\ inflight' = [inflight EXCEPT ![p] =
                    Flight("done", r.id, r.hangs, "deleted", db[r.id] # NoRow)]
  /\ UNCHANGED <<kv, cacheOn, last, stale, book_members, requests, now, passed>>

\* the response is sent; the isolate can take the next request
DeleteResponds(p) ==
  /\ inflight[p].pc = "done"
  /\ inflight' = [inflight EXCEPT ![p] = Idle]
  /\ UNCHANGED <<db, kv, cacheOn, last, stale, bookStatus, book_members, requests, now, passed>>

DeleteStep(p) == DeleteGetById(p) \/ DeleteExecuteRun(p) \/ DeleteResponds(p)
NextConc == HttpPost \/ \E p \in Procs : DeleteArrives(p) \/ DeleteStep(p)
\* the event loop resumes every request whose awaited call has returned
SpecConc == Init /\ [][NextConc]_vars /\ \A p \in Procs : WF_vars(DeleteStep(p))

\* --------------------------------- validate and what is thrown behind it
\* what the rest of the route throws after validate called next(): nothing,
\* an Error (here a NotFoundError), or a value that is not an Error
ThrownValue == Err(NullV, "boom")
Thrown == {NoErr, NotFoundError("Book"), ThrownValue}
IsError(thrown) == thrown.name # NullV
\* The dispatcher answers an Error with app.onError where it was thrown, so
\* next() resolves; any other thrown value rejects next().  The try block of
\* validate holds `await next()`: what rejects there is caught and thrown
\* again as ValidationError(error.errors?.[0]?.message || 'Validation failed').
\* The result is the error app.onError receives.
validate_catch(valid, thrown) ==
  IF ~valid THEN ValidationError("Validation failed")
  ELSE IF thrown = NoErr \/ IsError(thrown) THEN thrown
  ELSE ValidationError("Validation failed")

\* POST /books with a valid or invalid body: requireMembership,
\* validate(BookSchema), then a rest of the route that may throw
JsValidateThenThrow ==
  \E bodyStatus \in StatusEnum \cup {"draft"}, thrown \in Thrown :
    LET valid == BookSchema_parse(bodyStatus)
        raised == validate_catch(valid, thrown)
        res == IF raised = NoErr
               THEN Resp(201, ResponseUtils_success({}, NoAgg))
               ELSE OnError(raised)
        obs == JsLast("POST", <<>>, "", "validate", res, FALSE,
                      IF valid THEN 1 ELSE 0, 0, valid, 0, 0, "basic", NoFault, "")
    IN  /\ last' = Extend(Extend(obs, "thrown", IF valid THEN thrown ELSE NoErr),
                          "raised", raised)
        /\ UNCHANGED <<db, kv, cacheOn, stale, bookStatus, book_members, inflight, requests, now, passed>>

NextJsSort == JsGetSorted \/ JsPost \/ JsNotFound \/ JsValidateThenThrow
SpecJsSort == Init /\ [][NextJsSort]_vars

\* ================================================================ claims
BatchRoutes == {"createMultipleBooks", "updateMultipleBooks", "deleteMultipleBooks"}

\* C1: after every successful write, no list cache entry that was stored
\* before that write remains in the cache.
C1_NoListEntryOutlivesWrite == \A k \in DOMAIN kv : k \in ListKeys => k \notin stale

\* C2: after a successful update or delete of book X, the cache holds no
\* single-item entry for X that was stored before that write.
C2_NoItemEntryOutlivesWrite == \A id \in Ids : ItemKey(id) \in DOMAIN kv => ItemKey(id) \notin stale

\* C3: a GET answered from the cache has the body of the response that
\* stored the entry, and the handler is not run for it.
C3_HitRepeatsFirstBody ==
  (last.hit /\ last.key \in DOMAIN kv) =>
    (last.body = Parse(kv[last.key]) /\ last.handlerCalls = 0)

\* C4: an entry is stored only for a read that completed successfully: no
\* entry holds the body of an error response.
C4_OnlySuccessfulReadsStored == \A k \in DOMAIN kv : Parse(kv[k]).success

\* C5: when a step of the cache collaborator fails (get, parse, put), the
\* request is a miss and the client gets exactly the handler's response.
C5_CacheFailureNotSurfaced ==
  (last.route \in {"ts.getBooks", "ts.getBookById"} /\ last.cacheFault # "none") =>
    (~last.hit /\ last.handlerCalls = 1 /\ Resp(last.status, last.body) = last.handled)

\* C6: GET /books/:id for an id with no stored book answers 404 with
\* success = false (500 when the storage call of this request failed).
C6_AbsentIdAnswers404 ==
  (last.route = "getBookById" /\ Row(db, last.segs[1]) = NoRow) =>
    \/ last.status = 404 /\ ~last.body.success
    \/ ~last.hit /\ last.status = 500 /\ last.body.code = "GET_BOOK_ERROR"

\* C7: for a non-empty array, whatever its items, every item is attempted
\* and the batch handler answers 200/201.
C7_EveryItemAttempted ==
  (last.route \in BatchRoutes /\ last.batch.isArray /\ Len(last.batch.items) > 0) =>
    (last.status \in {200, 201} /\ last.attempted = Len(last.batch.items))

\* whether an errors entry carries the input item, a results entry its book
CarriesInput(route, entry, item) ==
  CASE route = "createMultipleBooks" -> entry.data = item
    [] route = "updateMultipleBooks" -> entry.id = item.id /\ entry.data = item.data
    [] route = "deleteMultipleBooks" -> entry.id = item
ResultOf(route, book, item) ==
  CASE route = "createMultipleBooks" -> book.title = item
    [] route = "updateMultipleBooks" -> book.id = item.id
    [] route = "deleteMultipleBooks" -> book.id = item
Increasing(idx) == \A a, b \in DOMAIN idx : a < b => idx[a] < idx[b]

C9_EmptyBatchRejected ==
  (/\ last.segs = <<"batch">>
   /\ last.status # 401
   /\ ~last.batch.isArray \/ Len(last.batch.items) = 0) =>
    (last.status = 400 /\ last.body.code = "VALIDATION_ERROR" /\ last.dbCalls = 0)

\* C10: an authorised PUT or DELETE /books/batch with a non-empty array is
\* handled by updateMultiple / deleteMultiple and answers 200.
C10_BatchHandledByBatchRoute ==
  (/\ last.method \in {"PUT", "DELETE"}
   /\ last.segs = <<"batch">>
   /\ last.status # 401
   /\ last.batch.isArray /\ Len(last.batch.items) > 0) =>
    (last.route \in {"updateMultipleBooks", "deleteMultipleBooks"} /\ last.status = 200)

\* C11: whatever queries of getStatistics fail, the answer is 200 and each
\* failed key carries its default (0 / empty sequence), every other key the
\* result of its query.
C11_StatisticsDefaults ==
  (last.route = "getBookStatistics" /\ ~last.hit) =>
    /\ last.status = 200
    /\ \A i \in DOMAIN StatKeys :
         last.body.stats[StatKeys[i]] =
           IF StatKeys[i] \in last.failed THEN StatDefault(StatKeys[i])
           ELSE StatQuery(db, bookStatus, StatKeys[i])


\* C12: every stored book has exactly one OWNER row, and a create reported
\* as failed leaves no book row behind.
C12_EveryBookHasOwner ==
  /\ \A i \in Ids : db[i] # NoRow => book_members[i] = 1
  /\ (last.route \in {"app.post /books", "BookModel.create"} /\ ~last.success
        /\ last.fault # 3) => db[last.newId] = NoRow

\* C14: the LIMIT bound into the list query never exceeds 100, and a larger
\* limit is served (clamped), not rejected.
C14_LimitClamped ==
  last.route = "app.get /books" =>
    (last.pagination.boundLimit <= 100 /\ (last.fault = 0 => last.status = 200))

\* C15: for an accepted list request totalPages = ceil(total / limit) is a
\* non-negative integer, page = floor(offset / limit) + 1, and at most
\* limit items are returned.
C15_PaginationMeta ==
  (last.route = "app.get /books" /\ last.status = 200) =>
    LET p == last.pagination IN
    /\ p.totalPages.kind = "int" /\ p.totalPages.value >= 0
    /\ p.limit > 0 => p.totalPages.value * p.limit >= p.total
                      /\ (p.totalPages.value - 1) * p.limit < p.total
    /\ p.page.kind = "int"
    /\ p.limit > 0 => p.page.value = (p.boundOffset \div p.limit) + 1
    /\ p.count <= p.limit

\* C20: a 500 response does not carry the message of the underlying error.
C20_MessageRedacted ==
  (last.route \in {"app.get /books", "app.post /books"} /\ last.status = 500) =>
    last.details = NullV

\* C13: a request that fails validation is answered 4xx, and neither the
\* cache nor the storage is accessed while it is handled.
C13_InvalidRequestTouchesNothing ==
  (last.method # "" /\ ~last.valid) =>
    /\ last.status \in 400..499
    /\ last.cacheGets = 0 /\ last.cachePuts = 0 /\ last.dbCalls = 0

\* C16: the text of an update statement is one of the texts over the
\* declared fields: no key of the body becomes query text.
C16_QueryTextFixed ==
  (last.method = "PUT" /\ last.sql # "") =>
    last.sql \in {UpdateQuery(<<k>>) : k \in DeclaredFields}

\* C17: every stored book has a status of the enumerated set, and a write
\* carrying another value is answered 400.
C17_StatusEnumerated ==
  /\ \A i \in Ids : db[i] # NoRow => bookStatus[i] \in StatusEnum
  /\ (last.method = "POST" /\ last.principal # "none" /\ ~last.valid) => last.status = 400

\* C18: a write route is reached only by a principal of the level the
\* route requires; a principal below it is answered 403.
C18_MembershipRequired ==
  (last.method \in {"POST", "PUT", "DELETE"}) =>
    /\ last.principal = "none" => last.handlerCalls = 0 /\ last.dbCalls = 0
    /\ (last.principal = "basic" /\ RequiredLevel(last.route) = "premium") =>
         (last.status = 403 /\ last.handlerCalls = 0)

\* C19: a storage call that rejects reaches the controller as DatabaseError:
\* the answer is 500 with code DATABASE_ERROR.
C19_StorageFailureIsDatabaseError ==
  (/\ last.method \in {"POST", "PUT"}
   /\ last.handlerCalls = 1
   /\ last.fault.how = "throws" /\ last.dbCalls >= last.fault.at) =>
    (last.status = 500 /\ last.body.code = "DATABASE_ERROR")

\* what a sorted list request asked for, after the defaults of the schema
Sorted == "orderBy" \in DOMAIN last
AskedColumn == IF last.sort_by = NullV THEN "created_at" ELSE last.sort_by
AskedDirection == IF last.sort_order = NullV THEN "DESC" ELSE toUpperCase(last.sort_order)

\* C21: every response that reports a failure carries the failure envelope:
\* a success field that is false (next to the error text)
C21_FailureEnvelope ==
  (last.method # "" /\ last.status >= 400) =>
    ("success" \in DOMAIN last.body /\ last.body.success = FALSE)

\* C22: a list request with a valid sort_by and sort_order is ordered by that
\* column in that direction
C22_RequestedOrderUsed ==
  (Sorted /\ last.valid /\ last.handlerCalls = 1) =>
    /\ last.orderBy[1].column = AskedColumn
    /\ last.orderBy[1].direction = AskedDirection

\* C23: a list request whose sort field is outside the allow-list is served
\* successfully, ordered by created_at
C23_UnknownSortFallsBack ==
  (Sorted /\ last.sort_by \notin validSortColumns \cup {NullV}) =>
    /\ last.status = 200
    /\ last.handlerCalls = 1 => last.orderBy[1].column = "created_at"

\* C24: the page query orders by the sort column, then created_at, then id
C24_StableOrder ==
  (Sorted /\ last.handlerCalls = 1) =>
    /\ Len(last.orderBy) = 3
    /\ last.orderBy[2].column = "created_at"
    /\ last.orderBy[3].column = "id"

\* C26: for every client the number of requests passed on within the last
\* WindowMs never exceeds RateMax; a request arriving at that number gets 429,
\* is not passed on and not recorded; no request changes another client's entry
C26_SlidingWindow ==
  /\ \A c \in Clients : InWindow(passed[c], now) <= RateMax
  /\ (last.route = "rateLimit" /\ last.inWindow = RateMax) =>
       (last.status = 429 /\ last.nextCalls = 0 /\ ~last.recorded)
  /\ last.route = "rateLimit" => ~last.othersChanged
C26_Witness ==
  /\ last.route = "rateLimit" /\ last.status = 429 /\ last.inWindow = RateMax
  /\ \E c \in Clients \ {last.clientIp} : InWindow(passed[c], now) > 0

\* C27: executeWithRetry invokes the operation between 1 and MaxRetries
\* times, no attempt follows a successful one, a successful attempt ends the
\* call normally, and after MaxRetries failures the last error is thrown
C27_RetryBounded ==
  last.route = "BookModel.create" =>
    LET n == Len(last.tries) IN
    /\ n \in 1..MaxRetries
    /\ \A i \in 1..(n - 1) : last.tries[i] # NoErr
    /\ last.tries[n] = NoErr => last.retried = NoErr
    /\ last.tries[n] # NoErr => (n = MaxRetries /\ last.retried = last.tries[n])
C27_Witness ==
  /\ last.route = "BookModel.create"
  /\ Len(last.tries) = MaxRetries
  /\ last.tries[1] # last.tries[MaxRetries]
  /\ last.retried # NoErr

\* C28: behind cacheMiddleware the handler of a request runs at most once:
\* not at all on a hit, exactly once on a miss, also when the handler throws
\* or the put after it fails
C28_HandlerAtMostOnce ==
  (last.route \in {"ts.getBooks", "ts.getBookById"} /\ last.key # "") =>
    /\ last.handlerCalls <= 1
    /\ last.hit => last.handlerCalls = 0
    /\ ~last.hit => last.handlerCalls = 1
C28_Witness ==
  /\ last.route \in {"ts.getBooks", "ts.getBookById"}
  /\ last.cacheFault = "put" /\ last.handlerCalls = 1 /\ last.handled.status = 200

\* C25: every request is eventually answered, also when a storage call of
\* the request never returns
C25_EveryRequestAnswered ==
  \A p \in Procs : (inflight[p].pc = "getById") ~> (inflight[p].pc = "done")

\* C29: a DELETE that reports {deleted: true, id} removed a row, whatever
\* the interleaving with other DELETE requests for the same id
C29_DeletedMeansRemoved ==
  \A p \in Procs : inflight[p].report = "deleted" => inflight[p].removed

====
